---- MODULE Spec2Model ----
(***************************************************************************)
(* Model of two parts of the VPR placer:                                   *)
(*   - QPHybridSolver (vpr/src/place/analytical_placement/                 *)
(*     AnalyticalSolver.cpp): construction of the hybrid clique/star       *)
(*     linear system, the pseudo-anchor update and solve();                *)
(*   - Placer (vpr/src/place/placer.cpp): the constructor's cost           *)
(*     initialisation and check_place_ / check_placement_costs_.           *)
(*                                                                         *)
(* Numbers.  The code computes in double.  Matrix entries and right-hand   *)
(* sides are kept here as exact integers counted in units of 1/Unit, so    *)
(* that a weight 1/(pins-1) or pins/(pins-1) is an integer.  A node        *)
(* position is a grid integer 0..MaxPos or one of the two non-finite       *)
(* doubles NaN and Inf.                                                    *)
(***************************************************************************)
EXTENDS Integers, Sequences, FiniteSets, TLC

\* ------------------------------------------------------------------ bounds
NumMoveable == 3
NumFixed == 1
MaxPins == 4
MaxNets == 2
MaxPos == 1
MaxIter == 1
MaxCalls == 2
\* Placer: costs are 0 .. MaxCost tolerance steps, a recomputed cost is off by
\* at most MaxDrift, a check reports at most MaxErrors errors
MaxCost == 2
MaxDrift == 2
MaxErrors == 2

\* ------------------------------------------------------- numeric encoding
RECURSIVE Factorial(_)
Factorial(n) == IF n <= 1 THEN 1 ELSE n * Factorial(n - 1)

\* every divisor pins-1 (pins <= MaxPins) divides WScale
WScale == Factorial(MaxPins - 1)
\* fixed-point resolution of the pseudo-anchor weight: 10^-4
FScale == 10000
Unit == WScale * FScale

\* the non-finite doubles
NaN == -1
Inf == -2

IsFinite(v) == v # NaN /\ v # Inf

\* w * p for a finite weight w > 0 and a position p
VMul(w, p) == IF IsFinite(p) THEN w * p ELSE p

\* a + b in double arithmetic (Inf is +infinity; no -infinity arises)
VAdd(a, b) ==
    IF a = NaN \/ b = NaN THEN NaN
    ELSE IF a = Inf \/ b = Inf THEN Inf
    ELSE a + b

\* --------------------------------------------------------------- netlist
Nodes == 0 .. (NumMoveable + NumFixed - 1)
Grid == 0 .. MaxPos

RECURSIVE SeqsOfLen(_, _)
SeqsOfLen(S, n) ==
    IF n = 0 THEN {<<>>}
    ELSE {Append(s, e) : s \in SeqsOfLen(S, n - 1), e \in S}

SeqsUpTo(S, lo, hi) == UNION {SeqsOfLen(S, n) : n \in lo .. hi}

\* a net with more than StarThreshold pins is modelled as a star
StarThreshold == 3

IsSorted(p) == \A i \in 1 .. (Len(p) - 1) : p[i] <= p[i + 1]

\* pins of a net, in pin order: the node of each pin's block.  Two pins of a
\* net may sit on the same node.
CliquePins == SeqsUpTo(Nodes, 2, StarThreshold)
StarPins == SeqsUpTo(Nodes, StarThreshold + 1, MaxPins)
SortedStarPins == {p \in StarPins : IsSorted(p)}

\* a net: its pins and whether it is ignored for placement; a non-ignored
\* net has more than one pin.  The pins of an ignored net are never read, so
\* one ignored net of clique size and one of star size stand for all.
Net(p, ign) == [pins |-> p, ignored |-> ign]
IgnoredNets ==
    {Net([i \in 1 .. n |-> 0], TRUE) : n \in {2, StarThreshold + 1}}

\* every pin order of every net
AllNets == {Net(p, FALSE) : p \in CliquePins \cup StarPins} \cup IgnoredNets
\* every pin order of the clique nets, whose code depends on the order; the
\* star nets, whose loop treats each pin alone, with their pins sorted
MixNets == {Net(p, FALSE) : p \in CliquePins \cup SortedStarPins} \cup IgnoredNets

VARIABLES
    netlist,        \* p_placement.atom_netlist: sequence of nets
    node_loc_x,     \* p_placement.node_loc_x
    node_loc_y,     \* p_placement.node_loc_y
    A_sparse,       \* QPHybridSolver::A_sparse: [<<row, col>> |-> value]
    b_x,            \* QPHybridSolver::b_x
    b_y,            \* QPHybridSolver::b_y
    call,           \* the last call of solve: what it solved and how it ended
    calls_left,     \* how many more times the flow calls solve
    assert_level,   \* build configuration: VTR_ASSERT_LEVEL
    placer_opts_,   \* Placer: [timing_driven, noc], fixed at construction
    costs_,         \* Placer::costs_
    ctor,           \* how far the Placer constructor has come
    check,          \* the last call of check_place_: what it saw and how it ended
    blk_loc,        \* placer_state_: the site of every block
    annealer_,      \* Placer::annealer_: its phase, temperature, budget and last move
    implicit_memories,  \* odin_ii: the index from full name to implicit memory
    odin            \* odin_ii: the last call on the implicit memories and its result

solverVars == <<netlist, node_loc_x, node_loc_y, A_sparse, b_x, b_y, call,
                calls_left, assert_level>>

placerVars == <<placer_opts_, costs_, ctor, check>>

annealVars == <<blk_loc, annealer_>>

odinVars == <<implicit_memories, odin>>

vars == <<solverVars, placerVars, annealVars, odinVars>>

num_moveable_nodes == NumMoveable

is_moveable_node(node_id) == node_id < num_moveable_nodes

\* ------------------------------------------------- populate_hybrid_matrix
\* What the two branches emit, in program order, as 4-tuples:
\*   <<"T", row, col, v>>   tripletList.emplace_back(row, col, v)
\*   <<"B", idx, w, node>>  b_x(idx) += w * node_loc_x[node], and the same for b_y

\* faulty variant: the transposed entry of a moveable pair is left out
ConnectMoveable_OneSided(a, b, w) ==
    << <<"T", a, a, w>>, <<"T", b, b, w>>, <<"T", a, b, 0 - w>> >>

ConnectMoveable(a, b, w) ==
    << <<"T", a, a, w>>, <<"T", b, b, w>>, <<"T", a, b, 0 - w>>, <<"T", b, a, 0 - w>> >>

\* faulty variant: the fixed node's position is left out of the right-hand side
ConnectFixed_NoRhs(a, fixed, w) ==
    << <<"T", a, a, w>> >>

ConnectFixed(a, fixed, w) ==
    << <<"T", a, a, w>>, <<"B", a, w, fixed>> >>

\* weight of a star edge: num_pins / (num_pins - 1)
StarWeight(num_pins) == (num_pins * Unit) \div (num_pins - 1)

\* faulty variant: the clique weight computed by the star formula
CliqueWeight_AsStar(num_pins) == (num_pins * Unit) \div (num_pins - 1)

\* weight of a clique edge: 1.0 / (num_pins - 1)
CliqueWeight(num_pins) == Unit \div (num_pins - 1)

\* one pin of a star net
StarPin(node_id, star_node_id, w) ==
    IF is_moveable_node(node_id)
    THEN ConnectMoveable(star_node_id, node_id, w)
    ELSE ConnectFixed(star_node_id, node_id, w)

RECURSIVE StarLoop(_, _, _, _)
StarLoop(pins, ipin, star_node_id, w) ==
    IF ipin > Len(pins) THEN <<>>
    ELSE StarPin(pins[ipin], star_node_id, w) \o StarLoop(pins, ipin + 1, star_node_id, w)

\* The inner loop over jpin.  first_node_id is declared outside this loop
\* and std::swap changes it, so the swapped value is what the next jpin sees.
RECURSIVE CliqueInner(_, _, _, _)
CliqueInner(pins, first_node_id, jpin, w) ==
    IF jpin > Len(pins) THEN <<>>
    ELSE LET second_node_id == pins[jpin]
             swap == ~is_moveable_node(first_node_id)
             first == IF swap THEN second_node_id ELSE first_node_id
             second == IF swap THEN first_node_id ELSE second_node_id
         IN  IF ~is_moveable_node(first_node_id) /\ ~is_moveable_node(second_node_id)
             THEN CliqueInner(pins, first_node_id, jpin + 1, w)
             ELSE (IF is_moveable_node(second)
                   THEN ConnectMoveable(first, second, w)
                   ELSE ConnectFixed(first, second, w))
                  \o CliqueInner(pins, first, jpin + 1, w)

RECURSIVE CliqueLoop(_, _, _)
CliqueLoop(pins, ipin, w) ==
    IF ipin > Len(pins) THEN <<>>
    ELSE CliqueInner(pins, pins[ipin], ipin + 1, w) \o CliqueLoop(pins, ipin + 1, w)

\* what one non-ignored net emits; star_node_offset is the number of star
\* nodes handed out to the nets before it
NetEmits(pins, star_node_offset) ==
    IF Len(pins) > StarThreshold
    THEN StarLoop(pins, 1, num_moveable_nodes + star_node_offset, StarWeight(Len(pins)))
    ELSE CliqueLoop(pins, 1, CliqueWeight(Len(pins)))

IsStarNet(net) == ~net.ignored /\ Len(net.pins) > StarThreshold

\* faulty variant: an ignored net of more than 3 pins still gets a star node
RECURSIVE CountStarNodes_IgnoredToo(_, _)
CountStarNodes_IgnoredToo(nl, inet) ==
    IF inet > Len(nl) THEN 0
    ELSE (IF Len(nl[inet].pins) > StarThreshold THEN 1 ELSE 0)
         + CountStarNodes_IgnoredToo(nl, inet + 1)

\* first loop: count the star nodes
RECURSIVE CountStarNodes(_, _)
CountStarNodes(nl, inet) ==
    IF inet > Len(nl) THEN 0
    ELSE (IF IsStarNet(nl[inet]) THEN 1 ELSE 0) + CountStarNodes(nl, inet + 1)

\* faulty variant: star_node_offset is never advanced
RECURSIVE NetLoop_SharedStar(_, _, _)
NetLoop_SharedStar(nl, inet, star_node_offset) ==
    IF inet > Len(nl) THEN <<>>
    ELSE IF nl[inet].ignored THEN NetLoop_SharedStar(nl, inet + 1, star_node_offset)
    ELSE NetEmits(nl[inet].pins, star_node_offset)
         \o NetLoop_SharedStar(nl, inet + 1, star_node_offset)

\* second loop: over the nets, carrying star_node_offset
RECURSIVE NetLoop(_, _, _)
NetLoop(nl, inet, star_node_offset) ==
    IF inet > Len(nl) THEN <<>>
    ELSE IF nl[inet].ignored THEN NetLoop(nl, inet + 1, star_node_offset)
    ELSE NetEmits(nl[inet].pins, star_node_offset)
         \o NetLoop(nl, inet + 1,
                    IF Len(nl[inet].pins) > StarThreshold THEN star_node_offset + 1 ELSE star_node_offset)

\* A_sparse.setFromTriplets: duplicates are summed
RECURSIVE SumTriplets(_, _, _, _)
SumTriplets(emits, k, r, c) ==
    IF k > Len(emits) THEN 0
    ELSE (IF emits[k][1] = "T" /\ emits[k][2] = r /\ emits[k][3] = c THEN emits[k][4] ELSE 0)
         + SumTriplets(emits, k + 1, r, c)

\* b(idx): the += of the "B" emissions on a zero vector
RECURSIVE SumRhs(_, _, _, _)
SumRhs(emits, k, idx, loc) ==
    IF k > Len(emits) THEN 0
    ELSE LET rest == SumRhs(emits, k + 1, idx, loc)
         IN  IF emits[k][1] = "B" /\ emits[k][2] = idx
             THEN VAdd(VMul(emits[k][3], loc[emits[k][4]]), rest)
             ELSE rest

\* the system populate_hybrid_matrix leaves in (A_sparse, b_x, b_y)
populate_hybrid_matrix(nl, loc_x, loc_y) ==
    LET dim == num_moveable_nodes + CountStarNodes(nl, 1)
        emits == NetLoop(nl, 1, 0)
        idx == 0 .. (dim - 1)
    IN  [A |-> [rc \in idx \X idx |-> SumTriplets(emits, 1, rc[1], rc[2])],
         bx |-> [i \in idx |-> SumRhs(emits, 1, i, loc_x)],
         by |-> [i \in idx |-> SumRhs(emits, 1, i, loc_y)]]

\* ------------------------------------------ populate_update_hybrid_matrix
\* exp(iteration / 5) by its power series, in units of 1/ExpScale
DecayDen == 5
ExpScale == FScale * 1000

RECURSIVE ExpSeries(_, _, _)
ExpSeries(iteration, n, term) ==
    IF term = 0 THEN 0
    ELSE term + ExpSeries(iteration, n + 1, (term * iteration) \div (DecayDen * n))

\* 0.01 * exp(iteration / 5), in units of 1/FScale
C0Den == 100
coeff_pseudo_anchor(iteration) ==
    ExpSeries(iteration, 1, ExpScale) \div (C0Den * (ExpScale \div FScale))

\* the rows the pseudo-anchor loop visits
AnchorRows == 0 .. (num_moveable_nodes - 1)

\* faulty variant: the loop runs over every row, star rows included
populate_update_hybrid_matrix_AllRows(sys, loc_x, loc_y, iteration) ==
    LET pseudo_w == coeff_pseudo_anchor(iteration) * WScale
    IN  [A |-> [rc \in DOMAIN sys.A |->
                  IF rc[1] = rc[2] THEN sys.A[rc] + pseudo_w ELSE sys.A[rc]],
         bx |-> [i \in DOMAIN sys.bx |-> VAdd(sys.bx[i], VMul(pseudo_w, loc_x[i]))],
         by |-> [i \in DOMAIN sys.by |-> VAdd(sys.by[i], VMul(pseudo_w, loc_y[i]))]]

\* the system after the loop; sys must have a row for every moveable node
populate_update_hybrid_matrix(sys, loc_x, loc_y, iteration) ==
    LET pseudo_w == coeff_pseudo_anchor(iteration) * WScale
    IN  [A |-> [rc \in DOMAIN sys.A |->
                  IF rc[1] = rc[2] /\ rc[1] \in AnchorRows
                  THEN sys.A[rc] + pseudo_w ELSE sys.A[rc]],
         bx |-> [i \in DOMAIN sys.bx |->
                  IF i \in AnchorRows
                  THEN VAdd(sys.bx[i], VMul(pseudo_w, loc_x[i])) ELSE sys.bx[i]],
         by |-> [i \in DOMAIN sys.by |->
                  IF i \in AnchorRows
                  THEN VAdd(sys.by[i], VMul(pseudo_w, loc_y[i])) ELSE sys.by[i]]]

\* ------------------------------------------------------ conjugate gradient
hasNaN(v) == \E i \in DOMAIN v : v[i] = NaN

AllFinite(v) == \A i \in DOMAIN v : IsFinite(v[i])

\* number of rows of a vector indexed 0 .. n-1
Rows(v) == Cardinality(DOMAIN v)

\* sum over columns 0 .. n-1 of A(i, j) * x(j)
RECURSIVE RowDot(_, _, _, _)
RowDot(A, x, i, n) ==
    IF n = 0 THEN 0
    ELSE A[<<i, n - 1>>] * x[n - 1] + RowDot(A, x, i, n - 1)

RECURSIVE Norm2(_, _)
Norm2(x, n) ==
    IF n = 0 THEN 0
    ELSE x[n - 1] * x[n - 1] + Norm2(x, n - 1)

\* the solutions of A x = b that lie on the grid
GridSolutions(A, b) ==
    {x \in [DOMAIN b -> Grid] : \A i \in DOMAIN b : RowDot(A, x, i, Rows(b)) = b[i]}

LeastNorm(sols, n) ==
    {x \in sols : \A z \in sols : Norm2(x, n) <= Norm2(z, n)}

\* What cg.solve(b) returns when cg.info() is Success: the solution of
\* A x = b (exact here, to cg's tolerance in the code); cg starts from the
\* zero vector, so for a singular A it ends in the solution of least norm.
\* The model holds the solutions that lie on the grid.
cg_solution(A, b) ==
    UNION {LeastNorm(sols, Rows(b)) : sols \in {GridSolutions(A, b)}}

\* cg.solve(b) with the cg.info() that follows it.  The residual of a
\* non-finite b is never below the tolerance: the result is not a number and
\* info is not Success.  For a finite b the iteration may also end without
\* converging, at an iterate that is the starting vector or not a number.
cg_solve(A, b) ==
    IF AllFinite(b)
    THEN {[info |-> "Success", x |-> x] : x \in cg_solution(A, b)}
         \cup {[info |-> "NoConvergence", x |-> [i \in DOMAIN b |-> v]] : v \in {0, NaN}}
    ELSE {[info |-> "NoConvergence", x |-> [i \in DOMAIN b |-> NaN]]}

\* cg.info() after cg.compute(A)
ComputeInfo == {"Success", "NumericalIssue"}

\* ---------------------------------------------------- QPHybridSolver::solve
\* the iteration the preceding call of solve was given, -1 before any call
PreviousIteration == IF call.status = "none" THEN -1 ELSE call.iteration

NoCall ==
    [status |-> "none", iteration |-> 0, previous |-> -1, msg |-> "",
     A |-> <<>>, bx |-> <<>>, by |-> <<>>, x |-> <<>>, y |-> <<>>]

\* the call ended in a failed assertion with the system diff at hand
Fatal(iteration, diff, msg) ==
    [status |-> "fatal", iteration |-> iteration, previous |-> PreviousIteration, msg |-> msg,
     A |-> diff.A, bx |-> diff.bx, by |-> diff.by, x |-> <<>>, y |-> <<>>]

\* the call ran to its end and wrote x and y back; status is "ok" when every
\* cg.info() was Success and "unchecked" when one was not and no assertion
\* looked at it
Solved(iteration, diff, status, x, y) ==
    [status |-> status, iteration |-> iteration, previous |-> PreviousIteration, msg |-> "",
     A |-> diff.A, bx |-> diff.bx, by |-> diff.by, x |-> x, y |-> y]

\* VTR_ASSERT is compiled in from VTR_ASSERT_LEVEL 2 on (the default level),
\* VTR_ASSERT_DEBUG at level 4 only
AssertLevels == {0, 2, 4}
AssertEnabled == assert_level >= 2
DebugAssertEnabled == assert_level >= 4

\* VTR_ASSERT_DEBUG(!b.hasNaN())
DebugAssertFails(b) == DebugAssertEnabled /\ hasNaN(b)

\* lines 153-158 on given answers of the library
cg_outcome(iteration, diff, compute_info, ox, oy) ==
    IF AssertEnabled /\ compute_info # "Success"
    THEN Fatal(iteration, diff, "Conjugate Gradient failed at compute!")
    ELSE IF AssertEnabled /\ ox.info # "Success"
    THEN Fatal(iteration, diff, "Conjugate Gradient failed at solving b_x!")
    ELSE IF AssertEnabled /\ oy.info # "Success"
    THEN Fatal(iteration, diff, "Conjugate Gradient failed at solving b_y!")
    ELSE Solved(iteration, diff,
                IF compute_info = "Success" /\ ox.info = "Success" /\ oy.info = "Success"
                THEN "ok" ELSE "unchecked",
                ox.x, oy.x)

\* lines 151-158: every way the call can end
cg_outcomes(iteration, diff) ==
    IF DebugAssertFails(diff.bx) THEN {Fatal(iteration, diff, "b_x has NaN!")}
    ELSE IF DebugAssertFails(diff.by) THEN {Fatal(iteration, diff, "b_y has NaN!")}
    ELSE {cg_outcome(iteration, diff, compute_info, ox, oy) :
            compute_info \in ComputeInfo,
            ox \in cg_solve(diff.A, diff.bx), oy \in cg_solve(diff.A, diff.by)}

\* faulty variant: every row of the solution is written to the node of its number
write_back_AllRows(loc, x) ==
    [n \in Nodes |-> IF n \in DOMAIN x THEN x[n] ELSE loc[n]]

\* the loop that writes the solution back
write_back(loc, x) ==
    [n \in Nodes |-> IF n < num_moveable_nodes THEN x[n] ELSE loc[n]]

\* iteration != 0 on a system with fewer rows than moveable nodes: coeffRef
\* and operator() index out of range, which is undefined behaviour
UpdateOutOfRange(sys, iteration) ==
    iteration # 0 /\ ~(AnchorRows \subseteq DOMAIN sys.bx)

\* v itself.  TLC keeps a function [x \in S |-> e] as the expression e until
\* it is compared, and would evaluate e again at every application; the
\* comparison here makes it a table once.
Tabulated(v) == CHOOSE t \in {v} : t = v

\* faulty variant: the pseudo-anchor of the preceding call stays in the stored system
stored_system_Accumulating(iteration) ==
    IF iteration = 0
    THEN Tabulated(populate_hybrid_matrix(netlist, node_loc_x, node_loc_y))
    ELSE IF call.status = "none"
         THEN [A |-> A_sparse, bx |-> b_x, by |-> b_y]
         ELSE [A |-> call.A, bx |-> call.bx, by |-> call.by]

\* lines 137-138: the stored system the call works from
stored_system(iteration) ==
    IF iteration = 0
    THEN Tabulated(populate_hybrid_matrix(netlist, node_loc_x, node_loc_y))
    ELSE [A |-> A_sparse, bx |-> b_x, by |-> b_y]

\* lines 139-143: the per-call copy, with the pseudo-anchor when iteration != 0
diff_system(sys, iteration) ==
    IF iteration # 0
    THEN Tabulated(populate_update_hybrid_matrix(sys, node_loc_x, node_loc_y, iteration))
    ELSE sys

solve(iteration) ==
    /\ call.status \in {"none", "ok", "unchecked"}
    /\ calls_left > 0
    /\ calls_left' = calls_left - 1
    /\ \E sys \in {stored_system(iteration)} :
           /\ A_sparse' = sys.A
           /\ b_x' = sys.bx
           /\ b_y' = sys.by
           /\ IF UpdateOutOfRange(sys, iteration)
              THEN \E g \in Grid \cup {NaN} :
                     /\ call' = [NoCall EXCEPT !.status = "undefined",
                                               !.iteration = iteration,
                                               !.previous = PreviousIteration]
                     /\ node_loc_x' = [n \in Nodes |->
                                         IF n < num_moveable_nodes THEN g ELSE node_loc_x[n]]
                     /\ node_loc_y' = [n \in Nodes |->
                                         IF n < num_moveable_nodes THEN g ELSE node_loc_y[n]]
              ELSE \E diff \in {diff_system(sys, iteration)} :
                     \E out \in cg_outcomes(iteration, diff) :
                         /\ call' = out
                         /\ IF out.status # "fatal"
                            THEN /\ node_loc_x' = write_back(node_loc_x, out.x)
                                 /\ node_loc_y' = write_back(node_loc_y, out.y)
                            ELSE UNCHANGED <<node_loc_x, node_loc_y>>
    /\ UNCHANGED <<netlist, assert_level>>
    /\ UNCHANGED <<placerVars, annealVars, odinVars>>

Solve == \E iteration \in 0 .. MaxIter : solve(iteration)

\* ------------------------------------------------------------------ Placer
\* A cost is a whole number of cost units or, for an unused term, NaN.
\* PL_INCREMENTAL_COST_TOLERANCE is TolNum / TolDen.
TolNum == 1
TolDen == 100

\* a costs_ field nothing has been stored in yet
Unset == -3

Abs(v) == IF v < 0 THEN 0 - v ELSE v

\* the costs a placement can have, 0 included
CostValues == {c * TolDen : c \in 0 .. MaxCost}

\* what a recomputation from scratch can give for a tracked cost
CheckValues(cost) == {v \in (cost - MaxDrift) .. (cost + MaxDrift) : v >= 0}

\* 1 / cost, as the pair <<numerator, denominator>>
Norm(cost) == <<1, cost>>

\* t_placer_costs after its constructor
NewCosts ==
    [bb_cost |-> Unset, bb_cost_norm |-> <<Unset, Unset>>,
     timing_cost |-> Unset, timing_cost_norm |-> <<Unset, Unset>>,
     noc_cost_terms |-> Unset, noc_cost_norm_factors |-> <<Unset, Unset>>,
     cost |-> <<>>]

NoCheck ==
    [status |-> "none", error |-> 0, msg |-> "", cost_errors |-> 0,
     verify_placement |-> 0, bb_cost_check |-> 0, timing_cost_check |-> 0,
     timing_compared |-> FALSE, noc_checked |-> FALSE,
     noc_cost_errors |-> 0, noc_has_cycle |-> FALSE, costs |-> NewCosts]

\* fabs(cost_check - cost) > cost * PL_INCREMENTAL_COST_TOLERANCE
CostsDiffer(cost_check, cost) == Abs(cost_check - cost) * TolDen > cost * TolNum

\* faulty variant: the timing cost is compared whatever the place algorithm
check_placement_costs_AlwaysTiming(costs, opts, bb_cost_check, timing_cost_check) ==
    (IF CostsDiffer(bb_cost_check, costs.bb_cost) THEN 1 ELSE 0)
    + (IF CostsDiffer(timing_cost_check, costs.timing_cost) THEN 1 ELSE 0)

check_placement_costs_(costs, opts, bb_cost_check, timing_cost_check) ==
    (IF CostsDiffer(bb_cost_check, costs.bb_cost) THEN 1 ELSE 0)
    + (IF opts.timing_driven /\ CostsDiffer(timing_cost_check, costs.timing_cost)
       THEN 1 ELSE 0)

\* What the functions check_place_ calls answer on this placement:
\* verify_placement and check_noc_placement_costs their error counts,
\* comp_bb_cost(CHECK) and comp_td_costs the costs from scratch,
\* noc_routing_has_cycle whether there is a cycle.
Answers(costs) ==
    [verify_placement : 0 .. MaxErrors,
     bb_cost_check : CheckValues(costs.bb_cost),
     timing_cost_check : CheckValues(costs.timing_cost),
     noc_cost_errors : 0 .. MaxErrors,
     noc_has_cycle : BOOLEAN]

\* faulty variant: the NoC checks are counted whether or not NoC is enabled
check_place_errors_NocAlways(costs, opts, ans) ==
    ans.verify_placement
    + check_placement_costs_(costs, opts, ans.bb_cost_check, ans.timing_cost_check)
    + ans.noc_cost_errors + (IF ans.noc_has_cycle THEN 1 ELSE 0)

\* The error count of check_place_; the two NoC functions are called only
\* under noc_opts_.noc.
check_place_errors(costs, opts, ans) ==
    ans.verify_placement
    + check_placement_costs_(costs, opts, ans.bb_cost_check, ans.timing_cost_check)
    + (IF opts.noc
       THEN ans.noc_cost_errors + (IF ans.noc_has_cycle THEN 1 ELSE 0)
       ELSE 0)

SuccessMsg == "Completed placement consistency check successfully."
ErrorMsg == "Completed placement consistency check, %d errors found. Aborting program."

\* faulty variant: a bb cost found to differ is reset to the cost from scratch
check_place_Repairing(costs, opts, ans) ==
    LET error == check_place_errors(costs, opts, ans)
    IN  [status |-> IF error = 0 THEN "ok" ELSE "fatal",
         error |-> error,
         msg |-> IF error = 0 THEN SuccessMsg ELSE ErrorMsg,
         cost_errors |-> check_placement_costs_(costs, opts, ans.bb_cost_check,
                                                ans.timing_cost_check),
         verify_placement |-> ans.verify_placement,
         bb_cost_check |-> ans.bb_cost_check,
         timing_cost_check |-> ans.timing_cost_check,
         timing_compared |-> opts.timing_driven,
         noc_checked |-> opts.noc,
         noc_cost_errors |-> ans.noc_cost_errors,
         noc_has_cycle |-> ans.noc_has_cycle,
         costs |-> IF CostsDiffer(ans.bb_cost_check, costs.bb_cost)
                   THEN [costs EXCEPT !.bb_cost = ans.bb_cost_check]
                   ELSE costs]

\* check_place_ on the costs at hand: the record of the call, with what
\* check_placement_costs_ returned in it and costs_ as the call leaves it
check_place_(costs, opts, ans) ==
    LET error == check_place_errors(costs, opts, ans)
    IN  [status |-> IF error = 0 THEN "ok" ELSE "fatal",
         error |-> error,
         msg |-> IF error = 0 THEN SuccessMsg ELSE ErrorMsg,
         cost_errors |-> check_placement_costs_(costs, opts, ans.bb_cost_check,
                                                ans.timing_cost_check),
         verify_placement |-> ans.verify_placement,
         bb_cost_check |-> ans.bb_cost_check,
         timing_cost_check |-> ans.timing_cost_check,
         timing_compared |-> opts.timing_driven,
         noc_checked |-> opts.noc,
         noc_cost_errors |-> ans.noc_cost_errors,
         noc_has_cycle |-> ans.noc_has_cycle,
         costs |-> costs]

\* lines 88-90
CompBbCost ==
    /\ ctor = "placed"
    /\ \E bb_cost \in CostValues :
           costs_' = [costs_ EXCEPT !.bb_cost = bb_cost, !.bb_cost_norm = Norm(bb_cost)]
    /\ ctor' = "bb"
    /\ UNCHANGED <<placer_opts_, check>>
    /\ UNCHANGED <<solverVars, annealVars, odinVars>>

\* lines 92-93: alloc_and_init_timing_objects_, which stores the timing cost
\* and then runs check_place_; VPR_ERROR throws out of the constructor
AllocAndInitTimingObjects ==
    /\ ctor = "bb"
    /\ placer_opts_.timing_driven
    /\ \E timing_cost \in CostValues :
         \E costs \in {[costs_ EXCEPT !.timing_cost = timing_cost,
                                      !.timing_cost_norm = Norm(timing_cost)]} :
           \E ans \in Answers(costs) :
               /\ check' = check_place_(costs, placer_opts_, ans)
               /\ costs_' = check'.costs
               /\ ctor' = IF check'.status = "ok" THEN "timing" ELSE "aborted"
    /\ UNCHANGED placer_opts_
    /\ UNCHANGED <<solverVars, annealVars, odinVars>>

\* lines 94-100
NoTimingCost ==
    /\ ctor = "bb"
    /\ ~placer_opts_.timing_driven
    /\ costs_' = [costs_ EXCEPT !.timing_cost = NaN, !.timing_cost_norm = <<NaN, NaN>>]
    /\ ctor' = "timing"
    /\ UNCHANGED <<placer_opts_, check>>
    /\ UNCHANGED <<solverVars, annealVars, odinVars>>

\* lines 102-112
CompNocCosts ==
    /\ ctor = "timing"
    /\ placer_opts_.noc
    /\ \E noc_cost \in CostValues :
           costs_' = [costs_ EXCEPT !.noc_cost_terms = noc_cost,
                                    !.noc_cost_norm_factors = Norm(noc_cost)]
    /\ ctor' = "noc"
    /\ UNCHANGED <<placer_opts_, check>>
    /\ UNCHANGED <<solverVars, annealVars, odinVars>>

\* line 115: the total is a function of the terms stored so far
get_total_cost(costs) == <<costs.bb_cost, costs.timing_cost, costs.noc_cost_terms>>

TotalCost ==
    /\ \/ ctor = "timing" /\ ~placer_opts_.noc
       \/ ctor = "noc"
    /\ costs_' = [costs_ EXCEPT !.cost = get_total_cost(costs_)]
    /\ ctor' = "done"
    /\ UNCHANGED <<placer_opts_, check>>
    /\ UNCHANGED <<solverVars, annealVars, odinVars>>

\* check_place_ as a call of its own, on a Placer whose costs are all stored
CheckPlace ==
    /\ ctor = "done"
    /\ \E ans \in Answers(costs_) :
           /\ check' = check_place_(costs_, placer_opts_, ans)
           /\ costs_' = check'.costs
           /\ ctor' = IF check'.status = "ok" THEN "checked" ELSE "aborted"
    /\ UNCHANGED placer_opts_
    /\ UNCHANGED <<solverVars, annealVars, odinVars>>

PlacerOpts == [timing_driven : BOOLEAN, noc : BOOLEAN]

\* costs_ at the end of the constructor, for the options opts
DoneCosts(opts) ==
    {[c EXCEPT !.cost = get_total_cost(c)] :
        c \in {[bb_cost |-> bb, bb_cost_norm |-> Norm(bb),
                timing_cost |-> td,
                timing_cost_norm |-> IF opts.timing_driven THEN Norm(td) ELSE <<NaN, NaN>>,
                noc_cost_terms |-> noc,
                noc_cost_norm_factors |-> IF opts.noc THEN Norm(noc) ELSE <<Unset, Unset>>,
                cost |-> <<>>] :
                  bb \in CostValues,
                  td \in IF opts.timing_driven THEN CostValues ELSE {NaN},
                  noc \in IF opts.noc THEN CostValues ELSE {Unset}}}

\* ---------------------------------------------------------------------------
\* The annealer and its move generator.  placer.cpp constructs the annealer
\* (line 184) and the move generator header declares propose_move; their
\* bodies are described in sections 4.4 and 4.5 of the specification.
\* Blocks sit on a row of sites; blocks 0 and 1 form a placement macro,
\* block 2 is on its own.
\* ---------------------------------------------------------------------------
NumBlocks == 3
MaxSite == 4
MaxTemp == 2
MaxMoves == 2
Rlim == 2

Blocks == 0 .. (NumBlocks - 1)
Sites == 0 .. MaxSite

\* the placement macros: members with their offsets to the head, member 1
pl_macros == << <<[blk_index |-> 0, offset |-> 0], [blk_index |-> 1, offset |-> 1]>> >>

MacroMembers(imacro) == {pl_macros[imacro][m].blk_index : m \in DOMAIN pl_macros[imacro]}

\* the nets the bounding-box cost is summed over, as sets of blocks
ClbNets == {{0, 2}, {1, 2}}

SetMax(S) == CHOOSE v \in S : \A u \in S : u <= v
SetMin(S) == CHOOSE v \in S : \A u \in S : v <= u

RECURSIVE SumOver(_, _)
SumOver(S, f) == IF S = {} THEN 0 ELSE LET e == CHOOSE e \in S : TRUE IN f[e] + SumOver(S \ {e}, f)

\* the bounding box of one net: the span of its blocks' sites
get_net_cost(net, loc) == SetMax({loc[b] : b \in net}) - SetMin({loc[b] : b \in net})

\* the cost from scratch, as comp_bb_cost(CHECK) and the constructor compute it
comp_bb_cost(loc) == SumOver(ClbNets, [net \in ClbNets |-> get_net_cost(net, loc)])

\* the timing cost from scratch: every block's delay to the pad at site 0
comp_td_costs(loc) == SumOver(Blocks, [b \in Blocks |-> loc[b] + 1])

\* no two blocks on one site, every block on the device
IsLegal(loc) ==
    /\ \A b \in DOMAIN loc : loc[b] \in Sites
    /\ \A b, c \in DOMAIN loc : b # c => loc[b] # loc[c]

\* every macro member at its head's site plus its offset
MacrosAligned(loc) ==
    \A imacro \in DOMAIN pl_macros : \A m \in DOMAIN pl_macros[imacro] :
        loc[pl_macros[imacro][m].blk_index]
          = loc[pl_macros[imacro][1].blk_index] + pl_macros[imacro][m].offset

\* faulty variant: a macro member is moved on its own
blocks_to_move_Alone(b_from) == {b_from}

\* section 4.4: one node or, if that node belongs to a macro, the entire macro
blocks_to_move(b_from) ==
    IF \E imacro \in DOMAIN pl_macros : b_from \in MacroMembers(imacro)
    THEN UNION {MacroMembers(imacro) : imacro \in {i \in DOMAIN pl_macros : b_from \in MacroMembers(i)}}
    ELSE {b_from}

\* the placement with the move applied
commit_move_blocks(loc, blocks_affected) ==
    [b \in Blocks |-> IF b \in DOMAIN blocks_affected THEN blocks_affected[b] ELSE loc[b]]

\* section 4.4: the candidate moves of b_from within the range limit, each
\* a map from the moved blocks to their targets; none is the rejection signal
propose_move(loc, b_from, rlim) ==
    {blocks_affected \in {[b \in blocks_to_move(b_from) |-> loc[b] + d] : d \in ((0 - rlim) .. rlim) \ {0}} : IsLegal(commit_move_blocks(loc, blocks_affected))}

\* faulty variant: only the nets of the first moved block are re-evaluated
find_affected_nets_FirstBlock(blocks_affected) ==
    {net \in ClbNets : SetMin(DOMAIN blocks_affected) \in net}

\* the nets with a pin on a moved block
find_affected_nets(blocks_affected) ==
    {net \in ClbNets : net \cap DOMAIN blocks_affected # {}}

\* section 4.5: the bb cost delta, summed over the affected nets
comp_delta_bb(loc, blocks_affected) ==
    LET nets == find_affected_nets(blocks_affected)
        moved == commit_move_blocks(loc, blocks_affected)
    IN  SumOver(nets, [net \in nets |-> get_net_cost(net, moved) - get_net_cost(net, loc)])

\* section 4.5: the timing cost delta, summed over the moved blocks
comp_delta_td(loc, blocks_affected) ==
    SumOver(DOMAIN blocks_affected, [b \in DOMAIN blocks_affected |-> blocks_affected[b] - loc[b]])

\* faulty variant: the acceptance test does not look at the temperature
assess_swap_AnyTemperature(delta_c, t) ==
    IF delta_c <= 0 THEN {"ACCEPTED"} ELSE {"ACCEPTED", "REJECTED"}

\* section 4.5: accept if delta <= 0, else with probability exp(-delta / t),
\* which is no chance at all at temperature 0
assess_swap(delta_c, t) ==
    IF delta_c <= 0 THEN {"ACCEPTED"}
    ELSE IF t = 0 THEN {"REJECTED"}
    ELSE {"ACCEPTED", "REJECTED"}

\* faulty variant: the timing cost is left as it was
update_costs_NoTiming(costs, opts, bb_delta_c, timing_delta_c) ==
    [costs EXCEPT !.bb_cost = @ + bb_delta_c,
                  !.cost = <<@[1] + bb_delta_c, @[2], @[3]>>]

\* section 4.5: on accept every running total moves by its computed delta
update_costs(costs, opts, bb_delta_c, timing_delta_c) ==
    [costs EXCEPT !.bb_cost = @ + bb_delta_c,
                  !.timing_cost = IF opts.timing_driven THEN @ + timing_delta_c ELSE @,
                  !.cost = <<@[1] + bb_delta_c,
                             IF opts.timing_driven THEN @[2] + timing_delta_c ELSE @[2],
                             @[3]>>]

NoMove ==
    [result |-> "NONE", blocks |-> {}, t |-> 0,
     delta_c |-> 0, bb_delta_c |-> 0, timing_delta_c |-> 0]

\* no annealer constructed
NoAnnealer ==
    /\ blk_loc = <<>>
    /\ annealer_ = [state |-> "NONE", t |-> 0, moves_left |-> 0, last |-> NoMove]

\* the annealing starts at the highest temperature
StartAnnealing ==
    /\ annealer_.state = "INITIALIZING"
    /\ annealer_' = [annealer_ EXCEPT !.state = "ANNEALING", !.t = MaxTemp]
    /\ UNCHANGED <<blk_loc, placerVars, solverVars, odinVars>>

\* one step of the loop: a candidate from the move generator, its deltas, the
\* acceptance test, and the commit or the discard
try_swap ==
    /\ annealer_.state \in {"ANNEALING", "QUENCHING"}
    /\ annealer_.moves_left > 0
    /\ \E b_from \in Blocks :
         \E cands \in {propose_move(blk_loc, b_from, Rlim)} :
           IF cands = {}
           THEN /\ annealer_' = [annealer_ EXCEPT !.moves_left = @ - 1,
                                   !.last = [NoMove EXCEPT !.result = "ABORTED",
                                                           !.t = annealer_.t]]
                /\ UNCHANGED <<blk_loc, costs_>>
           ELSE \E blocks_affected \in cands :
                  LET bb_delta_c == comp_delta_bb(blk_loc, blocks_affected)
                      timing_delta_c == IF placer_opts_.timing_driven
                                        THEN comp_delta_td(blk_loc, blocks_affected)
                                        ELSE 0
                      delta_c == bb_delta_c + timing_delta_c
                  IN  \E result \in assess_swap(delta_c, annealer_.t) :
                        /\ annealer_' = [annealer_ EXCEPT !.moves_left = @ - 1,
                                           !.last = [result |-> result,
                                                     blocks |-> DOMAIN blocks_affected,
                                                     t |-> annealer_.t,
                                                     delta_c |-> delta_c,
                                                     bb_delta_c |-> bb_delta_c,
                                                     timing_delta_c |-> timing_delta_c]]
                        /\ IF result = "ACCEPTED"
                           THEN /\ blk_loc' = commit_move_blocks(blk_loc, blocks_affected)
                                /\ costs_' = update_costs(costs_, placer_opts_,
                                                          bb_delta_c, timing_delta_c)
                           ELSE UNCHANGED <<blk_loc, costs_>>
    /\ UNCHANGED <<placer_opts_, ctor, check>>
    /\ UNCHANGED <<solverVars, odinVars>>

\* the temperature falls on its schedule; at 0 the loop is quenching
update_temperature ==
    /\ annealer_.state = "ANNEALING"
    /\ annealer_' = [annealer_ EXCEPT !.t = @ - 1,
                        !.state = IF annealer_.t - 1 = 0 THEN "QUENCHING" ELSE "ANNEALING"]
    /\ UNCHANGED <<blk_loc, placerVars, solverVars, odinVars>>

\* the periodic verification: check_place_ on the placement at hand
AnnealerCheck ==
    /\ annealer_.state \in {"ANNEALING", "QUENCHING"}
    /\ \E ans \in {[verify_placement |-> IF IsLegal(blk_loc) THEN 0 ELSE 1,
                    bb_cost_check |-> comp_bb_cost(blk_loc),
                    timing_cost_check |-> IF placer_opts_.timing_driven
                                          THEN comp_td_costs(blk_loc) ELSE 0,
                    noc_cost_errors |-> 0, noc_has_cycle |-> FALSE]} :
           /\ check' = check_place_(costs_, placer_opts_, ans)
           /\ costs_' = check'.costs
           /\ annealer_' = [annealer_ EXCEPT
                               !.state = IF check'.status = "ok" THEN @ ELSE "ABORTED"]
    /\ UNCHANGED <<placer_opts_, ctor, blk_loc>>
    /\ UNCHANGED <<solverVars, odinVars>>

\* the loop ends when the quench has used up its budget
Terminate ==
    /\ annealer_.state = "QUENCHING"
    /\ annealer_.moves_left = 0
    /\ annealer_' = [annealer_ EXCEPT !.state = "TERMINATED"]
    /\ UNCHANGED <<blk_loc, placerVars, solverVars, odinVars>>

\* ---------------------------------------------------------------------------
\* odin_ii: implicit memories (implicit_memory.cpp).  A string is a sequence
\* of characters; a long has LongBits bits.
\* ---------------------------------------------------------------------------
LongBits == 5
MaxDataWidth == 2
MaxMemories == 2
MaxPortSize == 1

LongMax == 2 ^ (LongBits - 1) - 1
LongMin == 0 - 2 ^ (LongBits - 1)

\* a value brought back into the range of long
WrapLong(v) == ((v - LongMin) % (2 ^ LongBits)) + LongMin

\* input_value << shift_by as the two's complement machine computes it
shift_left_value_with_overflow_check(input_value, shift_by) == WrapLong(input_value * 2 ^ shift_by)

\* lines 155-160: the loop, from (real_memory_depth, addr_width).  A shift out
\* of the range of long is undefined: where it wraps the depth becomes 0 and
\* the loop never ends, otherwise the loop may end on any depth of that size
RECURSIVE closest_power_of_two(_, _, _)
closest_power_of_two(real_memory_depth, addr_width, memory_depth) ==
    IF real_memory_depth >= memory_depth
    THEN {[status |-> "ok", addr_width |-> addr_width, real_memory_depth |-> real_memory_depth]}
    ELSE IF real_memory_depth * 2 > LongMax
         THEN {[status |-> "hang", addr_width |-> addr_width + 1,
                real_memory_depth |-> shift_left_value_with_overflow_check(real_memory_depth, 1)],
               [status |-> "undefined", addr_width |-> addr_width + 1,
                real_memory_depth |-> LongMax]}
         ELSE closest_power_of_two(shift_left_value_with_overflow_check(real_memory_depth, 1),
                                   addr_width + 1, memory_depth)

SINGLE_PORT_RAM_string == <<"s", "p", "r", "a", "m">>

clk == <<"c", "l", "k">>
addr == <<"a", "d", "d", "r">>
data == <<"d", "a", "t", "a">>
we == <<"w", "e">>
out == <<"o", "u", "t">>
PortDigits == {"1", "2"}

\* the instance prefixes and identifiers memories are declared with
Prefixes == {<<"t">>, <<"t", ".", "u">>}
Identifiers == {<<"a">>, <<"b">>}

\* previous ^ signal_name
make_full_ref_name(instance_name_prefix, identifier) == instance_name_prefix \o <<"^">> \o identifier

\* no memory (a null pointer)
NullMemory ==
    [id |-> 0, name |-> <<>>, addr_width |-> 0, memory_depth |-> 0, data_width |-> 0,
     node |-> [input_pins |-> <<>>, output_pins |-> <<>>, identifier |-> <<>>]]

\* lines 63-74
lookup_implicit_memory(instance_name_prefix, identifier) ==
    LET memory_string == make_full_ref_name(instance_name_prefix, identifier)
    IN  IF memory_string \in DOMAIN implicit_memories
        THEN implicit_memories[memory_string]
        ELSE NullMemory

\* faulty variant: a memory of a name already in the index replaces the old one
insert_Replacing(index, full_name, memory) ==
    [n \in DOMAIN index \cup {full_name} |-> IF n = full_name THEN memory ELSE index[n]]

\* line 188: unordered_map::insert keeps the element whose key is already there
insert(index, full_name, memory) ==
    [n \in DOMAIN index \cup {full_name} |-> IF n \in DOMAIN index THEN index[n] ELSE memory]

NoOdinCall ==
    [op |-> "none", status |-> "none", allocated |-> 0, name |-> <<>>,
     requested |-> 0, memory |-> NullMemory, hb_model |-> FALSE, listed |-> "none"]

\* no implicit memory index
NoOdin ==
    /\ implicit_memories = <<>>
    /\ odin = NoOdinCall

\* lines 162-186: the memory allocated, after the loop found its depth
new_implicit_memory(id, full_name, found, data_width, memory_depth) ==
    [id |-> id,
     name |-> full_name,
     addr_width |-> found.addr_width,
     memory_depth |-> IF memory_depth # found.real_memory_depth
                      THEN found.real_memory_depth ELSE memory_depth,
     data_width |-> data_width,
     node |-> [input_pins |-> <<>>, output_pins |-> <<>>,
               identifier |-> SINGLE_PORT_RAM_string]]

\* lines 148-191
create_implicit_memory_block(data_width, memory_depth, name, instance_name_prefix) ==
    /\ odin.status \in {"none", "ok"}
    /\ odin.allocated < MaxMemories
    /\ \E found \in closest_power_of_two(1, 0, memory_depth) :
         LET full_name == make_full_ref_name(instance_name_prefix, name)
             memory == new_implicit_memory(odin.allocated + 1, full_name, found,
                                           data_width, memory_depth)
         IN  IF found.status = "hang"
             THEN /\ odin' = [NoOdinCall EXCEPT !.op = "create", !.status = "hang",
                                                !.allocated = odin.allocated,
                                                !.name = full_name, !.requested = memory_depth]
                  /\ UNCHANGED implicit_memories
             ELSE /\ odin' = [NoOdinCall EXCEPT !.op = "create", !.status = found.status,
                                                !.allocated = odin.allocated + 1,
                                                !.name = full_name, !.requested = memory_depth,
                                                !.memory = memory]
                  /\ implicit_memories' = insert(implicit_memories, full_name, memory)
    /\ UNCHANGED <<solverVars, placerVars, annealVars>>

\* a lookup as a call of its own
LookupImplicitMemory ==
    /\ odin.op = "create"
    /\ odin.status \in {"ok", "undefined"}
    /\ \E prefix \in Prefixes, identifier \in Identifiers :
           odin' = [NoOdinCall EXCEPT !.op = "lookup", !.status = "ok",
                                      !.allocated = odin.allocated,
                                      !.name = make_full_ref_name(prefix, identifier),
                                      !.memory = lookup_implicit_memory(prefix, identifier)]
    /\ UNCHANGED implicit_memories
    /\ UNCHANGED <<solverVars, placerVars, annealVars>>

CreateImplicitMemoryBlock ==
    \E data_width \in 1 .. MaxDataWidth, memory_depth \in 1 .. LongMax :
      \E name \in Identifiers, prefix \in Prefixes :
          create_implicit_memory_block(data_width, memory_depth, name, prefix)

\* "addr1", "out2", ...
PortName(base, digit) == base \o <<digit>>

\* the ports in the order this model connects them
InputPortOrder ==
    <<clk, PortName(addr, "1"), PortName(data, "1"), PortName(we, "1"),
      PortName(addr, "2"), PortName(data, "2"), PortName(we, "2")>>
OutputPortOrder == <<PortName(out, "1"), PortName(out, "2")>>

\* is there a pin with this mapping (the scans of lines 307-332)
HasMapping(pins, port_name) == \E i \in DOMAIN pins : pins[i] = port_name

\* lines 196-200: size pins, each mapped to port_name, behind the pins there are
add_input_port_to_implicit_memory(memory, size, port_name) ==
    [memory EXCEPT !.node.input_pins = @ \o [i \in 1 .. size |-> port_name]]

\* lines 205-209
add_output_port_to_implicit_memory(memory, size, port_name) ==
    [memory EXCEPT !.node.output_pins = @ \o [i \in 1 .. size |-> port_name]]

\* lines 256-265: size zero pins
add_dummy_input_port_to_implicit_memory(memory, size, port_name) ==
    add_input_port_to_implicit_memory(memory, size, port_name)

\* lines 271-285: size unconnected pins
add_dummy_output_port_to_implicit_memory(memory, size, port_name) ==
    add_output_port_to_implicit_memory(memory, size, port_name)

\* mapping[strlen(mapping) - 1] = 0
StripLast(mapping) == SubSeq(mapping, 1, Len(mapping) - 1)

\* lines 382-411
collapse_implicit_memory_to_single_port_ram(memory) ==
    [memory EXCEPT
        !.node.input_pins = [i \in DOMAIN @ |-> IF @[i] # clk THEN StripLast(@[i]) ELSE @[i]],
        !.node.output_pins = [i \in DOMAIN @ |-> StripLast(@[i])],
        !.node.identifier = SINGLE_PORT_RAM_string]

\* lines 342-347 and 349-354: the missing ports of port number digit
PadPort(memory, digit, has_addr, has_data, has_we, has_out) ==
    LET m1 == IF ~has_addr
              THEN add_dummy_input_port_to_implicit_memory(memory, memory.addr_width, PortName(addr, digit))
              ELSE memory
        m2 == IF ~has_data
              THEN add_dummy_input_port_to_implicit_memory(m1, m1.data_width, PortName(data, digit))
              ELSE m1
        m3 == IF ~has_we
              THEN add_dummy_input_port_to_implicit_memory(m2, 1, PortName(we, digit))
              ELSE m2
    IN  IF ~has_out
        THEN add_dummy_output_port_to_implicit_memory(m3, m3.data_width, PortName(out, digit))
        ELSE m3

\* lines 287-380: the memory as finalize leaves it and the list its node is
\* put on; hb_model is whether find_hard_block found a model
finalize_implicit_memory(memory, hb_model) ==
    LET ins == memory.node.input_pins
        outs == memory.node.output_pins
        has_addr1 == HasMapping(ins, PortName(addr, "1"))
        has_addr2 == HasMapping(ins, PortName(addr, "2"))
        has_data1 == HasMapping(ins, PortName(data, "1"))
        has_data2 == HasMapping(ins, PortName(data, "2"))
        has_we1 == HasMapping(ins, PortName(we, "1"))
        has_we2 == HasMapping(ins, PortName(we, "2"))
        has_clk == HasMapping(ins, clk)
        has_out1 == HasMapping(outs, PortName(out, "1"))
        has_out2 == HasMapping(outs, PortName(out, "2"))
        clocked == IF ~has_clk
                   THEN add_dummy_input_port_to_implicit_memory(memory, 1, clk)
                   ELSE memory
        has_port1 == has_addr1 \/ has_data1 \/ has_we1 \/ has_out1
        has_port2 == has_addr2 \/ has_data2 \/ has_we2 \/ has_out2
        padded1 == IF has_port1
                   THEN PadPort(clocked, "1", has_addr1, has_data1, has_we1, has_out1)
                   ELSE clocked
        padded2 == IF has_port2
                   THEN PadPort(padded1, "2", has_addr2, has_data2, has_we2, has_out2)
                   ELSE padded1
        final == IF ~has_port1 \/ ~has_port2
                 THEN collapse_implicit_memory_to_single_port_ram(padded2)
                 ELSE padded2
    IN  [memory |-> final,
         listed |-> IF (~has_port1 /\ ~has_port2) \/ ~hb_model THEN "none"
                    ELSE IF final.node.identifier = SINGLE_PORT_RAM_string THEN "sp"
                    ELSE "dp"]

\* the place in the order of the port the last pin belongs to, 0 without pins
LastPort(pins, order) ==
    IF pins = <<>> THEN 0 ELSE CHOOSE k \in DOMAIN order : order[k] = pins[Len(pins)]

\* a port of the memory just created is connected: size pins
AddInputPort ==
    /\ odin.op \in {"create", "add_port"}
    /\ odin.status = "ok"
    /\ \E k \in DOMAIN InputPortOrder, size \in 1 .. MaxPortSize :
         /\ k > LastPort(implicit_memories[odin.name].node.input_pins, InputPortOrder)
         /\ implicit_memories' = [implicit_memories EXCEPT ![odin.name] =
                add_input_port_to_implicit_memory(@, size, InputPortOrder[k])]
    /\ odin' = [odin EXCEPT !.op = "add_port"]
    /\ UNCHANGED <<solverVars, placerVars, annealVars>>

AddOutputPort ==
    /\ odin.op \in {"create", "add_port"}
    /\ odin.status = "ok"
    /\ \E k \in DOMAIN OutputPortOrder, size \in 1 .. MaxPortSize :
         /\ k > LastPort(implicit_memories[odin.name].node.output_pins, OutputPortOrder)
         /\ implicit_memories' = [implicit_memories EXCEPT ![odin.name] =
                add_output_port_to_implicit_memory(@, size, OutputPortOrder[k])]
    /\ odin' = [odin EXCEPT !.op = "add_port"]
    /\ UNCHANGED <<solverVars, placerVars, annealVars>>

\* finalize_implicit_memory on the memory; odin.memory keeps what it was before
FinalizeImplicitMemory ==
    /\ odin.op \in {"create", "add_port"}
    /\ odin.status = "ok"
    /\ \E hb_model \in BOOLEAN :
         \E done \in {finalize_implicit_memory(implicit_memories[odin.name], hb_model)} :
           /\ implicit_memories' = [implicit_memories EXCEPT ![odin.name] = done.memory]
           /\ odin' = [odin EXCEPT !.op = "finalize",
                                   !.memory = implicit_memories[odin.name],
                                   !.hb_model = hb_model,
                                   !.listed = done.listed]
    /\ UNCHANGED <<solverVars, placerVars, annealVars>>

\* the Placer as the solver's runs see it: not constructed
NoPlacer ==
    /\ placer_opts_ = [timing_driven |-> FALSE, noc |-> FALSE]
    /\ costs_ = NewCosts
    /\ ctor = "none"
    /\ check = NoCheck
    /\ NoAnnealer
    /\ NoOdin

\* the solver as the Placer's runs see it: never called
InitSolverIdle ==
    /\ netlist = <<>>
    /\ node_loc_x = [n \in Nodes |-> 0]
    /\ node_loc_y = [n \in Nodes |-> 0]
    /\ A_sparse = <<>>
    /\ b_x = <<>>
    /\ b_y = <<>>
    /\ call = NoCall
    /\ calls_left = 0
    /\ assert_level = 2

InitSolver(netlists, locs_x, locs_y, budget, builds) ==
    /\ netlist \in netlists
    /\ node_loc_x \in locs_x
    /\ node_loc_y \in locs_y
    /\ A_sparse = <<>>
    /\ b_x = <<>>
    /\ b_y = <<>>
    /\ call = NoCall
    /\ calls_left = budget
    /\ assert_level \in builds
    /\ NoPlacer

\* System construction: netlists of up to MaxNets nets on one placement.
Init ==
    InitSolver(SeqsUpTo(MixNets, 0, MaxNets),
               {[n \in Nodes |-> (n + 1) % (MaxPos + 1)]},
               {[n \in Nodes |-> n % (MaxPos + 1)]},
               MaxCalls, {2})

Next == Solve

Spec == Init /\ [][Next]_vars

\* Repeated solves: netlists of at most one net, in every pin order, with the
\* fixed nodes anywhere on the grid or at a non-finite position, at every
\* assertion level.
Positions == Grid \cup {NaN, Inf}

SolveLocs ==
    {loc \in [Nodes -> Positions] :
        \A n \in Nodes : is_moveable_node(n) => loc[n] = n % (MaxPos + 1)}

SolveInit ==
    InitSolver(SeqsUpTo(AllNets, 0, 1), SolveLocs, SolveLocs, MaxCalls, AssertLevels)

SolveSpec == SolveInit /\ [][Next]_vars

\* Solver passes: one solver object called once more than in Spec, on
\* netlists of at most one net, so that an iteration k > 0 can follow another.
AnchorInit ==
    InitSolver(SeqsUpTo(AllNets, 0, 1),
               {[n \in Nodes |-> (n + 1) % (MaxPos + 1)]},
               {[n \in Nodes |-> n % (MaxPos + 1)]},
               MaxCalls + 1, {2})

AnchorSpec == AnchorInit /\ [][Next]_vars

\* The Placer constructor from line 88 on, under every option, on a solver
\* that is not run.
PlacerInit ==
    /\ InitSolverIdle
    /\ placer_opts_ \in PlacerOpts
    /\ costs_ = NewCosts
    /\ ctor = "placed"
    /\ check = NoCheck
    /\ NoAnnealer
    /\ NoOdin

PlacerNext ==
    \/ CompBbCost
    \/ AllocAndInitTimingObjects
    \/ NoTimingCost
    \/ CompNocCosts
    \/ TotalCost

PlacerSpec == PlacerInit /\ [][PlacerNext]_vars

\* check_place_ and check_placement_costs_ on every constructed Placer: every
\* option, every stored cost, every answer of the functions they call.
CheckInit ==
    /\ InitSolverIdle
    /\ placer_opts_ \in PlacerOpts
    /\ costs_ \in DoneCosts(placer_opts_)
    /\ ctor = "done"
    /\ check = NoCheck
    /\ NoAnnealer
    /\ NoOdin

CheckNext == CheckPlace

CheckSpec == CheckInit /\ [][CheckNext]_vars

\* Annealing: every legal placement of the blocks with the macro aligned, the
\* costs as the constructor computes them from scratch.
InitialPlacements == {loc \in [Blocks -> Sites] : IsLegal(loc) /\ MacrosAligned(loc)}

InitialCosts(loc, opts) ==
    LET c == [NewCosts EXCEPT !.bb_cost = comp_bb_cost(loc),
                              !.bb_cost_norm = Norm(comp_bb_cost(loc)),
                              !.timing_cost = IF opts.timing_driven THEN comp_td_costs(loc) ELSE NaN,
                              !.timing_cost_norm = IF opts.timing_driven THEN Norm(comp_td_costs(loc)) ELSE <<NaN, NaN>>]
    IN  [c EXCEPT !.cost = get_total_cost(c)]

AnnealInit ==
    /\ InitSolverIdle
    /\ placer_opts_ \in [timing_driven : BOOLEAN, noc : {FALSE}]
    /\ blk_loc \in InitialPlacements
    /\ costs_ = InitialCosts(blk_loc, placer_opts_)
    /\ ctor = "done"
    /\ check = NoCheck
    /\ annealer_ = [state |-> "INITIALIZING", t |-> MaxTemp, moves_left |-> MaxMoves, last |-> NoMove]
    /\ NoOdin

AnnealNext ==
    \/ StartAnnealing
    \/ try_swap
    \/ update_temperature
    \/ AnnealerCheck
    \/ Terminate

AnnealSpec == AnnealInit /\ [][AnnealNext]_vars

\* The implicit memory index: memories created and looked up.
MemoryInit ==
    /\ InitSolverIdle
    /\ placer_opts_ = [timing_driven |-> FALSE, noc |-> FALSE]
    /\ costs_ = NewCosts
    /\ ctor = "none"
    /\ check = NoCheck
    /\ NoAnnealer
    /\ NoOdin

MemoryNext ==
    \/ CreateImplicitMemoryBlock
    \/ LookupImplicitMemory

MemorySpec == MemoryInit /\ [][MemoryNext]_vars

\* Finalization: one memory as create_implicit_memory_block returns it, for
\* every data width and depth; its ports are connected in the order of
\* InputPortOrder and OutputPortOrder (the scans of finalize_implicit_memory
\* look at each pin alone), then it is finalized.
CreatedMemories ==
    {new_implicit_memory(1, make_full_ref_name(<<"t">>, <<"a">>), found.f, found.w, found.d) :
        found \in {c \in UNION {{[f |-> f, w |-> w, d |-> d] : f \in closest_power_of_two(1, 0, d)} : w \in 1 .. MaxDataWidth, d \in 1 .. LongMax} : c.f.status = "ok"}}

FinalizeInit ==
    /\ InitSolverIdle
    /\ placer_opts_ = [timing_driven |-> FALSE, noc |-> FALSE]
    /\ costs_ = NewCosts
    /\ ctor = "none"
    /\ check = NoCheck
    /\ NoAnnealer
    /\ \E memory \in CreatedMemories :
          /\ implicit_memories = [n \in {memory.name} |-> memory]
          /\ odin = [NoOdinCall EXCEPT !.op = "create", !.status = "ok", !.allocated = 1,
                                       !.name = memory.name,
                                       !.requested = memory.memory_depth,
                                       !.memory = memory]

FinalizeNext ==
    \/ AddInputPort
    \/ AddOutputPort
    \/ FinalizeImplicitMemory

FinalizeSpec == FinalizeInit /\ [][FinalizeNext]_vars

\* =================================================================== claims
\* What the properties below are stated in: the nets as the specification
\* reads them, independent of the loops above.

\* the last call of solve worked on a system built by populate_hybrid_matrix
Built == call.status \in {"ok", "unchecked", "fatal"}

MoveableNodes == {n \in Nodes : is_moveable_node(n)}
FixedNodes == Nodes \ MoveableNodes

IsCliqueNet(net) == ~net.ignored /\ Len(net.pins) <= StarThreshold

\* the weight of an edge of a net of n pins: 1/(n-1) in a clique, n/(n-1) in a star
EdgeWeight(n) == IF n > StarThreshold THEN (n * Unit) \div (n - 1) ELSE Unit \div (n - 1)

\* the weight the specification states for both models: n/(n-1)
StatedWeight(n) == (n * Unit) \div (n - 1)

\* the pin pairs of the clique nets: <<net, i, j>> with i < j
CliquePairs(nl) ==
    {t \in (1 .. Len(nl)) \X (1 .. StarThreshold) \X (1 .. StarThreshold) :
        IsCliqueNet(nl[t[1]]) /\ t[2] < t[3] /\ t[3] <= Len(nl[t[1]].pins)}

PairA(nl, t) == nl[t[1]].pins[t[2]]
PairB(nl, t) == nl[t[1]].pins[t[3]]
PairW(nl, t) == EdgeWeight(Len(nl[t[1]].pins))

\* the pin pair t joins node m and a fixed node: that fixed node, else -1
FixedEnd(nl, t, m) ==
    IF PairA(nl, t) = m /\ ~is_moveable_node(PairB(nl, t)) THEN PairB(nl, t)
    ELSE IF PairB(nl, t) = m /\ ~is_moveable_node(PairA(nl, t)) THEN PairA(nl, t)
    ELSE -1

\* the pin pair t joins node m and another node that is moveable
JoinsMoveable(nl, t, m) ==
    \/ PairA(nl, t) = m /\ PairB(nl, t) # m /\ is_moveable_node(PairB(nl, t))
    \/ PairB(nl, t) = m /\ PairA(nl, t) # m /\ is_moveable_node(PairA(nl, t))

\* right-hand side at a moveable node m: weight x position over the fixed pairs
RECURSIVE FixedPairRhs(_, _, _, _)
FixedPairRhs(nl, S, m, loc) ==
    IF S = {} THEN 0
    ELSE LET t == CHOOSE u \in S : TRUE
             f == FixedEnd(nl, t, m)
         IN  VAdd(IF f = -1 THEN 0 ELSE VMul(PairW(nl, t), loc[f]),
                  FixedPairRhs(nl, S \ {t}, m, loc))

\* diagonal at a moveable node m from the clique nets: one weight per pin pair
\* joining m to a fixed node or to another moveable node
RECURSIVE PairDiag(_, _, _)
PairDiag(nl, S, m) ==
    IF S = {} THEN 0
    ELSE LET t == CHOOSE u \in S : TRUE
         IN  (IF FixedEnd(nl, t, m) # -1 \/ JoinsMoveable(nl, t, m)
              THEN PairW(nl, t) ELSE 0)
             + PairDiag(nl, S \ {t}, m)

\* the number of pins of net n on node m
PinsOn(nl, n, m) == Cardinality({i \in 1 .. Len(nl[n].pins) : nl[n].pins[i] = m})

\* diagonal at a moveable node m from the star nets: one weight per pin on m
RECURSIVE StarDiag(_, _, _)
StarDiag(nl, n, m) ==
    IF n > Len(nl) THEN 0
    ELSE (IF IsStarNet(nl[n]) THEN PinsOn(nl, n, m) * EdgeWeight(Len(nl[n].pins)) ELSE 0)
         + StarDiag(nl, n + 1, m)

\* the elements of a sequence
Range(q) == {q[k] : k \in 1 .. Len(q)}

\* C1: for every pin pair of a non-ignored clique net joining a moveable node m
\* and a fixed node f, in whatever pin order, the build adds the net weight to
\* A[m][m] and weight x position(f) to both right-hand sides at m, creates no
\* matrix entry at a fixed node's index, and a pair of two fixed nodes adds
\* nothing.  Stated on the built system: diagonal and right-hand sides at each
\* moveable node are the sums over the pin pairs.
C1_FixedPairTerms ==
    Built =>
        /\ \A m \in MoveableNodes :
              /\ A_sparse[<<m, m>>]
                   = PairDiag(netlist, CliquePairs(netlist), m) + StarDiag(netlist, 1, m)
              /\ b_x[m] = FixedPairRhs(netlist, CliquePairs(netlist), m, node_loc_x)
              /\ b_y[m] = FixedPairRhs(netlist, CliquePairs(netlist), m, node_loc_y)
        /\ \A n \in 1 .. Len(netlist) :
              IsCliqueNet(netlist[n]) =>
                  \A e \in Range(NetEmits(netlist[n].pins, 0)) :
                      e[1] = "T" => is_moveable_node(e[2]) /\ is_moveable_node(e[3])

\* the sum of the weights of the pin pairs joining the moveable nodes i and j
RECURSIVE JoinWeight(_, _, _, _)
JoinWeight(nl, S, i, j) ==
    IF S = {} THEN 0
    ELSE LET t == CHOOSE u \in S : TRUE
         IN  (IF {PairA(nl, t), PairB(nl, t)} = {i, j} THEN PairW(nl, t) ELSE 0)
             + JoinWeight(nl, S \ {t}, i, j)

\* the rank of net n among the star nets before it
StarRank(nl, n) == Cardinality({k \in 1 .. (n - 1) : IsStarNet(nl[k])})

StarIndex(nl, n) == num_moveable_nodes + StarRank(nl, n)

NumStars(nl) == Cardinality({k \in 1 .. Len(nl) : IsStarNet(nl[k])})

\* row i of the system has a connection to a fixed node
HasFixedConnection(nl, i) ==
    \/ \E t \in CliquePairs(nl) : FixedEnd(nl, t, i) # -1
    \/ \E n \in 1 .. Len(nl) :
          /\ IsStarNet(nl[n])
          /\ StarIndex(nl, n) = i
          /\ \E f \in FixedNodes : PinsOn(nl, n, f) > 0

RECURSIVE RowSum(_, _, _)
RowSum(A, i, n) == IF n = 0 THEN 0 ELSE A[<<i, n - 1>>] + RowSum(A, i, n - 1)

\* C2: after the build, for distinct moveable nodes i and j the entry A[i][j]
\* is minus the sum of the weights of the connections joining i and j, each
\* pin pair of a clique net counted once, and the sum of row i is zero for
\* every moveable or star row i without a connection to a fixed node.
C2_OffDiagonalAndRowSums ==
    Built =>
        /\ \A i, j \in MoveableNodes :
              i # j => A_sparse[<<i, j>>]
                         = 0 - JoinWeight(netlist, CliquePairs(netlist), i, j)
        /\ \A i \in DOMAIN b_x :
              ~HasFixedConnection(netlist, i) => RowSum(A_sparse, i, Rows(b_x)) = 0

\* C3: the matrix handed to the solver is symmetric, at iteration 0 and after
\* the pseudo-anchor update at an iteration k > 0, for every netlist.
C3_Symmetric ==
    Built => \A rc \in DOMAIN call.A : call.A[rc] = call.A[<<rc[2], rc[1]>>]

\* a solve at an iteration k > 0 on a system with a clique net, a star net, a
\* pin on a fixed node and a nonzero off-diagonal entry
C3_Witness ==
    /\ call.status = "ok"
    /\ call.iteration > 0
    /\ \E n \in 1 .. Len(netlist) : IsCliqueNet(netlist[n])
    /\ \E n \in 1 .. Len(netlist) :
          IsStarNet(netlist[n]) /\ \E f \in FixedNodes : PinsOn(netlist, n, f) > 0
    /\ \E rc \in DOMAIN call.A : rc[1] # rc[2] /\ call.A[rc] # 0
    /\ \E i \in MoveableNodes : call.A[<<i, i>>] # A_sparse[<<i, i>>]

\* the net is the only one of the netlist and its pins are distinct moveable nodes
LoneMoveableNet(nl) ==
    /\ Len(nl) = 1
    /\ ~nl[1].ignored
    /\ \A i \in 1 .. Len(nl[1].pins) : is_moveable_node(nl[1].pins[i])
    /\ \A i, j \in 1 .. Len(nl[1].pins) : i # j => nl[1].pins[i] # nl[1].pins[j]

\* every emission of every non-ignored net carries the weight W(number of pins)
EmitsWeigh(nl, W(_)) ==
    \A n \in 1 .. Len(nl) :
        ~nl[n].ignored =>
            \A e \in Range(NetEmits(nl[n].pins, 0)) :
                /\ e[1] = "T" => Abs(e[4]) = W(Len(nl[n].pins))
                /\ e[1] = "B" => e[3] = W(Len(nl[n].pins))

\* a clique net alone on distinct moveable nodes: one edge of weight W per pair
LoneCliqueEdges(nl, A, W(_)) ==
    (LoneMoveableNet(nl) /\ IsCliqueNet(nl[1])) =>
        \A i, j \in 1 .. Len(nl[1].pins) :
            A[<<nl[1].pins[i], nl[1].pins[j]>>]
              = IF i = j THEN (Len(nl[1].pins) - 1) * W(Len(nl[1].pins))
                ELSE 0 - W(Len(nl[1].pins))

\* C4 as stated: every edge of a non-ignored net, clique or star, weighs
\* pins/(pins-1); a 3-pin net over 3 moveable nodes gives 3 pairwise edges of
\* weight 1.5.
C4_StatedWeights ==
    Built => EmitsWeigh(netlist, StatedWeight) /\ LoneCliqueEdges(netlist, A_sparse, StatedWeight)

\* C4 as the code has it: a clique edge weighs 1/(pins-1), a star edge
\* pins/(pins-1); a 3-pin net over 3 moveable nodes gives 3 pairwise edges of
\* weight 1/(3-1) = 0.5.
C4_EdgeWeights ==
    Built => EmitsWeigh(netlist, EdgeWeight) /\ LoneCliqueEdges(netlist, A_sparse, EdgeWeight)

\* a 3-pin net over the 3 moveable nodes was built: three edges of weight 0.5
C4_Witness ==
    /\ Built
    /\ LoneMoveableNet(netlist)
    /\ Len(netlist[1].pins) = StarThreshold
    /\ \A i, j \in MoveableNodes : i # j => 2 * A_sparse[<<i, j>>] = 0 - Unit

\* the right-hand side of a star row: weight x position over the net's fixed pins
RECURSIVE StarRhs(_, _, _)
StarRhs(pins, i, loc) ==
    IF i > Len(pins) THEN 0
    ELSE VAdd(IF is_moveable_node(pins[i]) THEN 0
              ELSE VMul(EdgeWeight(Len(pins)), loc[pins[i]]),
              StarRhs(pins, i + 1, loc))

\* C5: the index space is the moveable nodes followed by one star node per
\* non-ignored net of more than 3 pins; the star index of such a net is
\* num_moveable_nodes + its rank among the star nets, its pins are connected
\* to that star node only, distinct star nodes are not connected, and a net
\* of 3 or fewer pins creates no star node.
C5_StarIndexSpace ==
    Built =>
        /\ DOMAIN b_x = 0 .. (num_moveable_nodes + NumStars(netlist) - 1)
        /\ DOMAIN A_sparse = (DOMAIN b_x) \X (DOMAIN b_x)
        /\ \A n \in 1 .. Len(netlist) :
              IsStarNet(netlist[n]) =>
                  LET s == StarIndex(netlist, n)
                      w == EdgeWeight(Len(netlist[n].pins))
                  IN  /\ A_sparse[<<s, s>>] = Len(netlist[n].pins) * w
                      /\ \A m \in MoveableNodes :
                            /\ A_sparse[<<s, m>>] = 0 - (PinsOn(netlist, n, m) * w)
                            /\ A_sparse[<<m, s>>] = 0 - (PinsOn(netlist, n, m) * w)
                      /\ \A k \in (1 .. Len(netlist)) \ {n} :
                            IsStarNet(netlist[k]) =>
                                /\ StarIndex(netlist, k) # s
                                /\ A_sparse[<<s, StarIndex(netlist, k)>>] = 0
                      /\ b_x[s] = StarRhs(netlist[n].pins, 1, node_loc_x)
                      /\ b_y[s] = StarRhs(netlist[n].pins, 1, node_loc_y)
        /\ \A i, j \in MoveableNodes :
              (i # j /\ ~\E t \in CliquePairs(netlist) :
                            {PairA(netlist, t), PairB(netlist, t)} = {i, j})
                  => A_sparse[<<i, j>>] = 0

\* two star nets, the second behind an ignored net or a clique net or the
\* first star net, each with its own star row
C5_Witness ==
    /\ Built
    /\ NumStars(netlist) = 2
    /\ Rows(b_x) = num_moveable_nodes + 2
    /\ A_sparse[<<num_moveable_nodes + 1, num_moveable_nodes + 1>>] > 0
    /\ \E f \in FixedNodes : PinsOn(netlist, 2, f) > 0

\* C6: if the solve fails to converge for an axis, or a right-hand side
\* holds a non-finite value (NaN or infinity), solve ends in a fatal error in
\* every build configuration and overwrites no position, so that no
\* non-finite position enters the placement.  Stated on the last call: a call
\* that did not end in a fatal error converged on both axes, had finite
\* right-hand sides and left every moveable node at a finite position.
C6_NonFiniteIsFatal ==
    call.status \in {"ok", "unchecked"} =>
        /\ call.status = "ok"
        /\ AllFinite(call.bx)
        /\ AllFinite(call.by)
        /\ \A n \in MoveableNodes : IsFinite(node_loc_x[n]) /\ IsFinite(node_loc_y[n])

\* 0.01 * exp(k / 5) for k = 1, 2, ..., in units of 10^-4
AnchorWeights == <<122, 149, 182, 222, 271, 332>>

\* the weight of the pseudo-anchor at iteration k, in units of 1/Unit
AnchorWeight(k) == IF k = 0 THEN 0 ELSE AnchorWeights[k] * WScale

\* this step is a call of solve that got as far as the system it solves
SolveStep == calls_left' # calls_left /\ call'.status \in {"ok", "unchecked", "fatal"}

\* C7: a call of solve with iteration k > 0 adds, for every moveable node i,
\* the weight 0.01 * exp(k / 5) to A[i][i] and that weight times node i's
\* position at the start of the call to both right-hand sides at i; star rows
\* get no anchor term, and a call with iteration 0 adds none at all.
C7_PseudoAnchor ==
    [][SolveStep =>
          LET k == call'.iteration
              w == AnchorWeight(k)
          IN  /\ DOMAIN call'.A = DOMAIN A_sparse'
              /\ DOMAIN call'.bx = DOMAIN b_x'
              /\ DOMAIN call'.by = DOMAIN b_y'
              /\ \A rc \in DOMAIN call'.A :
                    call'.A[rc] = IF k > 0 /\ rc[1] = rc[2] /\ is_moveable_node(rc[1])
                                  THEN A_sparse'[rc] + w
                                  ELSE A_sparse'[rc]
              /\ \A i \in DOMAIN call'.bx :
                    /\ call'.bx[i] = IF k > 0 /\ is_moveable_node(i)
                                     THEN VAdd(b_x'[i], VMul(w, node_loc_x[i]))
                                     ELSE b_x'[i]
                    /\ call'.by[i] = IF k > 0 /\ is_moveable_node(i)
                                     THEN VAdd(b_y'[i], VMul(w, node_loc_y[i]))
                                     ELSE b_y'[i]
      ]_vars

\* a solve at an iteration k > 0 of a system with a star row, in which the
\* anchor changed a right-hand side: some moveable node was off the origin
C7_Witness ==
    /\ call.status = "ok"
    /\ call.iteration > 0
    /\ Rows(call.bx) > num_moveable_nodes
    /\ \E i \in MoveableNodes : call.bx[i] # b_x[i] /\ call.A[<<i, i>>] # A_sparse[<<i, i>>]
    /\ call.A[<<num_moveable_nodes, num_moveable_nodes>>]
         = A_sparse[<<num_moveable_nodes, num_moveable_nodes>>]

\* C8: a successful solve overwrites the x and y positions of exactly the
\* moveable nodes with the solved values; the positions of the fixed nodes
\* are unchanged and the solution at a star row is written to no node.
C8_WriteBack ==
    [][(calls_left' # calls_left /\ call'.status = "ok") =>
          \A n \in Nodes :
              /\ node_loc_x'[n] = IF is_moveable_node(n) THEN call'.x[n] ELSE node_loc_x[n]
              /\ node_loc_y'[n] = IF is_moveable_node(n) THEN call'.y[n] ELSE node_loc_y[n]
      ]_vars

\* a successful solve of a system with a star row whose solution differs from
\* the position of the fixed node of the same number, and which moved a node
C8_Witness ==
    /\ call.status = "ok"
    /\ Rows(call.x) > num_moveable_nodes
    /\ IsFinite(node_loc_x[num_moveable_nodes])
    /\ call.x[num_moveable_nodes] # node_loc_x[num_moveable_nodes]
    /\ \E n \in MoveableNodes : node_loc_y[n] # n % (MaxPos + 1)

\* the netlist is one 2-pin net joining m and f, in either pin order
LonePair(nl, m, f) ==
    nl \in {<<Net(<<m, f>>, FALSE)>>, <<Net(<<f, m>>, FALSE)>>}

\* C9: at iteration 0 a moveable node whose only connection is one 2-pin net
\* to a fixed node at a finite position is placed by solve at that position,
\* whichever pin comes first.
C9_PulledToFixed ==
    \A m \in MoveableNodes, f \in FixedNodes :
        (/\ call.status = "ok"
         /\ call.iteration = 0
         /\ LonePair(netlist, m, f)
         /\ IsFinite(node_loc_x[f])
         /\ IsFinite(node_loc_y[f]))
            => node_loc_x[m] = node_loc_x[f] /\ node_loc_y[m] = node_loc_y[f]

\* the fixed node is the first pin, and the moveable node was moved to it
C9_Witness ==
    /\ call.status = "ok"
    /\ call.iteration = 0
    /\ netlist = <<Net(<<num_moveable_nodes, 0>>, FALSE)>>
    /\ node_loc_x[num_moveable_nodes] = 1
    /\ node_loc_y[num_moveable_nodes] = 1
    /\ node_loc_x[0] = 1
    /\ node_loc_y[0] = 1

\* the errors of the last check_place_ call, recounted from what it saw
RecountedErrors ==
    check.verify_placement
    + (IF CostsDiffer(check.bb_cost_check, check.costs.bb_cost) THEN 1 ELSE 0)
    + (IF placer_opts_.timing_driven
          /\ CostsDiffer(check.timing_cost_check, check.costs.timing_cost)
       THEN 1 ELSE 0)
    + (IF placer_opts_.noc
       THEN check.noc_cost_errors + (IF check.noc_has_cycle THEN 1 ELSE 0)
       ELSE 0)

\* C10: check_place_ reports success exactly when the errors of placement
\* verification, the bounding-box cost check, the timing cost check and, only
\* with NoC enabled, the NoC cost check and the NoC cycle check add up to
\* zero; otherwise it raises a fatal placement error that carries that total;
\* the NoC checks are not invoked with NoC disabled.
C10_CheckPlace ==
    check.status # "none" =>
        /\ check.status = "ok" <=> RecountedErrors = 0
        /\ check.status = "ok" => check.msg = SuccessMsg /\ ctor # "aborted"
        /\ check.status # "ok" =>
              /\ check.status = "fatal"
              /\ check.msg = ErrorMsg
              /\ check.error = RecountedErrors
              /\ ctor = "aborted"
        /\ ~placer_opts_.noc => ~check.noc_checked

\* with NoC disabled, a check that failed on a cost mismatch alone while the
\* NoC checks would have reported errors and a cycle
C10_Witness ==
    /\ check.status = "fatal"
    /\ ~placer_opts_.noc
    /\ check.noc_cost_errors > 0
    /\ check.noc_has_cycle
    /\ check.verify_placement = 0
    /\ check.error = 1

\* C11: check_placement_costs_ counts a bounding-box mismatch exactly when
\* |bb cost from scratch - tracked bb cost| exceeds tracked bb cost x
\* PL_INCREMENTAL_COST_TOLERANCE, counts a timing mismatch by the same rule
\* only when the place algorithm is timing driven, and returns the number of
\* mismatching terms, 0, 1 or 2; without timing-driven placement no timing
\* cost is compared.
C11_CostMismatches ==
    check.status # "none" =>
        LET bb_off == Abs(check.bb_cost_check - check.costs.bb_cost)
            td_off == Abs(check.timing_cost_check - check.costs.timing_cost)
            bb_bad == bb_off * TolDen > check.costs.bb_cost * TolNum
            td_bad == td_off * TolDen > check.costs.timing_cost * TolNum
        IN  /\ check.timing_compared = placer_opts_.timing_driven
            /\ check.cost_errors \in 0 .. 2
            /\ check.cost_errors
                 = (IF bb_bad THEN 1 ELSE 0)
                   + (IF placer_opts_.timing_driven /\ td_bad THEN 1 ELSE 0)

\* timing driven, the bb cost off by exactly the tolerance (not counted) and
\* the timing cost off by more (counted)
C11_Witness ==
    /\ check.status # "none"
    /\ placer_opts_.timing_driven
    /\ check.costs.bb_cost = TolDen
    /\ check.bb_cost_check = TolDen + TolNum
    /\ check.timing_cost_check # check.costs.timing_cost
    /\ check.cost_errors = 1

\* this step is a call of check_place_ on a constructed Placer
CheckStep == ctor = "done" /\ ctor' # "done"

\* C12: check_placement_costs_ and check_place_ repair nothing: whether or
\* not a mismatch was found, the tracked bb cost, timing cost and aggregate
\* cost in costs_ are after the check what they were before it.
C12_NoWriteBack ==
    [][CheckStep =>
          /\ costs_'.bb_cost = costs_.bb_cost
          /\ costs_'.timing_cost = costs_.timing_cost
          /\ costs_'.cost = costs_.cost
          /\ costs_' = costs_
      ]_vars

\* a check that found both costs to differ and left them as they were
C12_Witness ==
    /\ ctor = "aborted"
    /\ check.cost_errors = 2
    /\ check.bb_cost_check # costs_.bb_cost
    /\ check.timing_cost_check # costs_.timing_cost
    /\ costs_ = check.costs

\* the message of a check that fails on a cost mismatch and nothing else
CostMismatchMsg ==
    check_place_([NewCosts EXCEPT !.bb_cost = 0],
                 [timing_driven |-> FALSE, noc |-> FALSE],
                 [verify_placement |-> 0, bb_cost_check |-> 1, timing_cost_check |-> 0,
                  noc_cost_errors |-> 0, noc_has_cycle |-> FALSE]).msg

\* C13: when the check finds a cycle in the NoC routing, the run aborts
\* fatally and the failure is reported with a message distinct from the one
\* used for cost mismatches.
C13_CycleMessage ==
    (check.status # "none" /\ check.noc_checked /\ check.noc_has_cycle) =>
        /\ check.status = "fatal"
        /\ ctor = "aborted"
        /\ check.msg # CostMismatchMsg

\* C20: whenever the Placer runs check_place_, the costs it checks are all
\* stored: the bb cost, and with NoC enabled the NoC cost terms and their
\* normalization factors, before check_noc_placement_costs reads them.
C20_CostsInitialised ==
    check.status # "none" =>
        /\ check.costs.bb_cost # Unset
        /\ check.noc_checked =>
              /\ check.costs.noc_cost_terms # Unset
              /\ check.costs.noc_cost_norm_factors # <<Unset, Unset>>

\* this step is a call of solve, the first on its solver or a later one
CallStep == calls_left' # calls_left
FirstCall == CallStep /\ call.status = "none"
LaterCall == CallStep /\ call.status # "none"

\* the system populate_hybrid_matrix builds from the net model
BuiltSystem == populate_hybrid_matrix(netlist, node_loc_x, node_loc_y)
StoredSystem == [A |-> A_sparse, bx |-> b_x, by |-> b_y]

\* C18: the first call of solve on a QPHybridSolver builds the sparse system
\* from the net model whatever iteration number it is given, so no solve
\* runs on a system that was never built; a later call with iteration > 0
\* reuses the stored system without rebuilding it.
C18_FirstCallBuilds ==
    [][/\ FirstCall =>
            /\ call'.status # "undefined"
            /\ StoredSystem' = BuiltSystem
       /\ (LaterCall /\ call'.iteration > 0) => StoredSystem' = StoredSystem
      ]_vars

\* C19: a call of solve with iteration k > 0 leaves the stored base system
\* (A_sparse, b_x, b_y) as it was, and the system it solves is the system
\* built from the net model plus the pseudo-anchor of iteration k alone,
\* whatever calls came before it.
C19_AnchorOnCopy ==
    [][(LaterCall /\ call'.iteration > 0) =>
          /\ A_sparse' = A_sparse
          /\ b_x' = b_x
          /\ b_y' = b_y
          /\ LET diff == populate_update_hybrid_matrix(BuiltSystem, node_loc_x,
                                                       node_loc_y, call'.iteration)
             IN  /\ call'.A = diff.A
                 /\ call'.bx = diff.bx
                 /\ call'.by = diff.by
      ]_vars

\* the third call on a solver, an iteration k > 0 that followed another
\* iteration k > 0: its system carries an anchor, the stored one does not
C19_Witness ==
    /\ calls_left = 0
    /\ call.status = "ok"
    /\ call.iteration > 0
    /\ call.previous > 0
    /\ \E i \in MoveableNodes : call.A[<<i, i>>] # A_sparse[<<i, i>>]
    /\ StoredSystem = BuiltSystem

\* this step is one step of the annealer's loop: a candidate was asked for
AnnealStep == annealer_'.moves_left # annealer_.moves_left

\* C14: in every annealer step a candidate whose cost delta is <= 0 is
\* accepted, and a candidate whose delta is strictly positive is never
\* accepted at temperature 0.
C14_Acceptance ==
    [][(AnnealStep /\ annealer_'.last.result # "ABORTED") =>
          /\ annealer_'.last.t = annealer_.t
          /\ annealer_'.last.delta_c <= 0 => annealer_'.last.result = "ACCEPTED"
          /\ (annealer_'.last.delta_c > 0 /\ annealer_.t = 0)
                => annealer_'.last.result = "REJECTED"
      ]_vars

\* a worsening candidate turned down while quenching
C14_Witness ==
    /\ annealer_.state = "QUENCHING"
    /\ annealer_.last.result = "REJECTED"
    /\ annealer_.last.t = 0
    /\ annealer_.last.delta_c > 0

\* C15: a rejected candidate, the move generator's own rejection included,
\* leaves the block positions and every running cost total as they were; an
\* accepted one moves only the blocks of the candidate and changes each
\* running total by exactly its computed delta.
C15_MoveFrame ==
    [][AnnealStep =>
          LET last == annealer_'.last
          IN  IF last.result # "ACCEPTED"
              THEN /\ blk_loc' = blk_loc
                   /\ costs_' = costs_
              ELSE /\ \A b \in Blocks \ last.blocks : blk_loc'[b] = blk_loc[b]
                   /\ costs_'.bb_cost = costs_.bb_cost + last.bb_delta_c
                   /\ costs_'.timing_cost = costs_.timing_cost + last.timing_delta_c
                   /\ costs_'.cost[1] = costs_.cost[1] + last.bb_delta_c
                   /\ costs_'.cost[2] = costs_.cost[2] + last.timing_delta_c
                   /\ costs_'.cost[3] = costs_.cost[3]
                   /\ costs_'.noc_cost_terms = costs_.noc_cost_terms
      ]_vars

\* an accepted move of the lone block that changed both running totals
C15_Witness ==
    /\ annealer_.last.result = "ACCEPTED"
    /\ annealer_.last.blocks = {2}
    /\ placer_opts_.timing_driven
    /\ annealer_.last.bb_delta_c # 0
    /\ annealer_.last.timing_delta_c # 0
    /\ costs_.timing_cost = comp_td_costs(blk_loc)

\* C16: after any sequence of accepted and rejected moves from the initial
\* placement the costs from scratch equal the tracked costs within the
\* tolerance, and every verification finds no cost error.
C16_NoDrift ==
    annealer_.state # "NONE" =>
        /\ ~CostsDiffer(comp_bb_cost(blk_loc), costs_.bb_cost)
        /\ placer_opts_.timing_driven
              => ~CostsDiffer(comp_td_costs(blk_loc), costs_.timing_cost)
        /\ check.status # "none" => (check.cost_errors = 0 /\ check.status = "ok")

\* a verification after the whole move budget, the last move accepted and
\* of the macro
C16_Witness ==
    /\ annealer_.moves_left = 0
    /\ annealer_.last.result = "ACCEPTED"
    /\ annealer_.last.bb_delta_c # 0
    /\ annealer_.last.blocks = MacroMembers(1)
    /\ placer_opts_.timing_driven
    /\ check.status = "ok"
    /\ check.costs = costs_
    /\ check.bb_cost_check = comp_bb_cost(blk_loc)

\* C17: after every committed move every member of every placement macro
\* sits at the head's site plus its own offset, and a move that moves one
\* member moves every member by the same distance.
C17_MacrosMoveWhole ==
    [][AnnealStep =>
          /\ MacrosAligned(blk_loc')
          /\ \A imacro \in DOMAIN pl_macros :
                \A b, c \in MacroMembers(imacro) :
                    blk_loc'[b] - blk_loc[b] = blk_loc'[c] - blk_loc[c]
      ]_vars

\* a committed move of the macro, asked for through its second member or its head
C17_Witness ==
    /\ annealer_.last.result = "ACCEPTED"
    /\ annealer_.last.blocks = MacroMembers(1)
    /\ MacrosAligned(blk_loc)
    /\ annealer_.moves_left < MaxMoves - 1

\* the netlist with its ignored nets removed
NotIgnored(net) == ~net.ignored
WithoutIgnored(nl) == SelectSeq(nl, NotIgnored)

\* C21: a net that is ignored for placement adds no matrix entry, no
\* right-hand-side term and no star node: the system built is the one built
\* from the netlist with the ignored nets removed.
C21_IgnoredNets ==
    Built =>
        StoredSystem = populate_hybrid_matrix(WithoutIgnored(netlist), node_loc_x, node_loc_y)

\* a system built from an ignored net of star size followed by a star net:
\* one star row only
C21_Witness ==
    /\ call.status = "ok"
    /\ Len(netlist) = 2
    /\ netlist[1].ignored
    /\ Len(netlist[1].pins) > StarThreshold
    /\ IsStarNet(netlist[2])
    /\ Rows(b_x) = num_moveable_nodes + 1

IsPowerOfTwo(v) == \E k \in 0 .. LongBits : v = 2 ^ k

\* C23: for every requested memory_depth > 0, create_implicit_memory_block
\* records as memory_depth the smallest power of two >= the requested depth
\* and as addr_width its base-2 logarithm, leaves a depth that is a power of
\* two as it is, and registers the memory under its full name, so that
\* lookup_implicit_memory on that name returns it.
C23_DepthAndLookup ==
    odin.op = "create" =>
        /\ odin.status = "ok"
        /\ IsPowerOfTwo(odin.memory.memory_depth)
        /\ odin.memory.memory_depth >= odin.requested
        /\ odin.memory.memory_depth < 2 * odin.requested
        /\ odin.memory.memory_depth = 2 ^ odin.memory.addr_width
        /\ IsPowerOfTwo(odin.requested) => odin.memory.memory_depth = odin.requested
        /\ \A prefix \in Prefixes, identifier \in Identifiers :
              make_full_ref_name(prefix, identifier) = odin.name
                 => lookup_implicit_memory(prefix, identifier) = odin.memory

\* the number of pins with this mapping
PinCount(pins, port_name) == Cardinality({i \in DOMAIN pins : pins[i] = port_name})

\* the memory before finalize had a pin of port base, number digit
HadPin(memory, base, digit) ==
    HasMapping(IF base = out THEN memory.node.output_pins ELSE memory.node.input_pins,
               PortName(base, digit))

\* port number digit had at least one of its addr, data, we or out pins
HadPort(memory, digit) == \E base \in {addr, data, we, out} : HadPin(memory, base, digit)

\* the width a missing port is padded with
PadWidth(memory, base) ==
    IF base = addr THEN memory.addr_width
    ELSE IF base = we THEN 1
    ELSE memory.data_width

\* no mapping but clk ends in a port number
IsSinglePort(memory) ==
    /\ \A i \in DOMAIN memory.node.input_pins :
          memory.node.input_pins[i] # clk
             => memory.node.input_pins[i][Len(memory.node.input_pins[i])] \notin PortDigits
    /\ \A i \in DOMAIN memory.node.output_pins :
          memory.node.output_pins[i][Len(memory.node.output_pins[i])] \notin PortDigits

\* C22: after finalize_implicit_memory the memory has a clk input; for each
\* of port 1 and port 2 that had at least one of its addr, data, we or out
\* pins before the call, all four are present, a missing one padded with
\* addr_width, data_width, 1 and data_width pins; and the memory is collapsed
\* to a single-port RAM, the port digit stripped from every mapping but clk,
\* exactly when at least one of the two ports was entirely unused.
C22_FinalizedPorts ==
    odin.op = "finalize" =>
        LET before == odin.memory
            after == implicit_memories[odin.name]
            collapse == ~HadPort(before, "1") \/ ~HadPort(before, "2")
            pins(base) == IF base = out THEN after.node.output_pins ELSE after.node.input_pins
            mapping(base, digit) == IF collapse THEN base ELSE PortName(base, digit)
        IN  /\ HasMapping(after.node.input_pins, clk)
            /\ \A digit \in PortDigits :
                  HadPort(before, digit) =>
                      \A base \in {addr, data, we, out} :
                          /\ HasMapping(pins(base), mapping(base, digit))
                          /\ ~HadPin(before, base, digit)
                                => PinCount(pins(base), mapping(base, digit))
                                     = PadWidth(before, base)
            /\ IsSinglePort(after) <=> collapse

====
